---- MODULE Spec2Model ----
(***************************************************************************)
(* nvsmi-gui: the frame loop of MyApp (src/main.rs), its process table,    *)
(* the metric ring buffers of the device view, and poll_device.            *)
(*                                                                         *)
(* One step of the model is one call of MyApp::update: poll_device, the    *)
(* replacement of the rows, the two ring-buffer pushes, the re-sort, the   *)
(* tab bar and the panel of the current tab.  The device (NVML) and the    *)
(* pointer are the environment: each frame reads one device answer and at  *)
(* most one click (egui reports the click of a frame on the one widget     *)
(* under the pointer).                                                     *)
(***************************************************************************)
EXTENDS Integers, Sequences, FiniteSets, TLC

(* ------------------------------ bounds -------------------------------- *)

\* capacity of the metric ring buffers in the model (CircularBuffer<10_000, _>
\* in main.rs, <5000, _> in device/mod.rs: scaled down so that eviction happens)
Capacity == 2

\* frames (calls of update) in one run of the model
MaxFrames == 4

\* rows the device reports in the exhaustive process lists of SortSpec
MaxRows == 2

\* frames with pointer input that ViewSpec draws
MaxGestures == 1

(* ------------------------------ values -------------------------------- *)

\* process names are byte strings; String::cmp compares them bytewise
NameA == <<97>>
NameAB == <<97, 98>>
\* String::from("Unknown")
Unknown == <<85, 110, 107, 110, 111, 119, 110>>

\* Result of NVML.sys_process_name(pid, 64)
NameErr == [ok |-> FALSE, name |-> <<>>]
NameOk(n) == [ok |-> TRUE, name |-> n]

\* UsedGpuMemory
Unavailable == [tag |-> "Unavailable", val |-> 0]
Used(v) == [tag |-> "Used", val |-> v]

\* ProcessKind, in declaration order (derive(PartialOrd, Ord))
ProcessKindOrd(k) == IF k = "Compute" THEN 0 ELSE 1

\* SortKind, and Option<SortKind> with "None"
SortKinds == {"Pid", "Type", "ProcessName", "Memory"}

\* the NVML reads of poll_device (and the Lazy initialisation of NVML) that
\* end in unwrap()
FatalReads ==
  {"init", "device_by_index", "sys_cuda_driver_version",
   "running_graphics_processes", "running_compute_processes", "num_fans",
   "fan_speed", "name", "sys_driver_version", "temperature", "memory_info"}

VARIABLES
  running,            \* the process is alive (no panic, window not closed)
  current_state,      \* MyApp.current_state: <<>> is None, <<s>> is Some(s)
  current_tab,        \* MyApp.current_tab
  sort_descending,    \* ProcessTable.sort_descending
  sort_kind,          \* ProcessTable.sort_kind ("None" or a SortKind)
  processes,          \* ProcessTable.processes
  show_plot_window,   \* ProcessTable.show_plot_window
  selection,          \* ProcessTable.selection
  temperature_vals,   \* DeviceStatsPlot.temperature_vals, oldest first
  memory_usage_vals,  \* DeviceStatsPlot.memory_usage_vals, oldest first
  lock_x,             \* DeviceStatsPlot.lock_x
  lock_y,             \* DeviceStatsPlot.lock_y
  ctrl_to_zoom,       \* DeviceStatsPlot.ctrl_to_zoom
  shift_to_horizontal, \* DeviceStatsPlot.shift_to_horizontal
  bounds,             \* the bounds of the plot "plot", kept by egui_plot
  modifications,      \* the bounds modifications plot_ui issued in the last frame
  now,                \* the time, in ms since the start, the last frame began at
  polled,             \* the device answer the last frame read (<<>> before any)
  input,              \* the click the last frame received
  events,             \* the window events the last frame received
  history             \* every sample pushed so far, in push order

vars ==
  <<running, current_state, current_tab, sort_descending, sort_kind,
    processes, show_plot_window, selection, temperature_vals,
    memory_usage_vals, lock_x, lock_y, ctrl_to_zoom, shift_to_horizontal,
    bounds, modifications, now, polled, input, events, history>>

(* --------------------------- poll_device ------------------------------ *)

\* mutant of ProcessDataOf: unwrap_or_default() in place of the placeholder
ProcessDataOf_empty_name(info, kind) ==
  [pid |-> info.pid,
   used_gpu_memory |-> info.used_gpu_memory,
   process_kind |-> kind,
   process_name |-> IF info.name.ok THEN info.name.name ELSE <<>>]

\* ProcessData built from one ProcessInfo of an enumeration and the answer of
\* sys_process_name for its pid: unwrap_or_else(|_| String::from("Unknown"))
ProcessDataOf(info, kind) ==
  [pid |-> info.pid,
   used_gpu_memory |-> info.used_gpu_memory,
   process_kind |-> kind,
   process_name |-> IF info.name.ok THEN info.name.name ELSE Unknown]

ProcessDataVec(infos, kind) ==
  [i \in 1..Len(infos) |-> ProcessDataOf(infos[i], kind)]

\* mutant of ConcatProcesses: the enumerations are joined before the records
\* are built, and every record is given the kind Graphics
ConcatProcesses_one_kind(g) == ProcessDataVec(g.graphics \o g.compute, "Graphics")

\* [graphics_process_data_vec, compute_process_data_vec].concat()
ConcatProcesses(g) ==
  ProcessDataVec(g.graphics, "Graphics") \o ProcessDataVec(g.compute, "Compute")

\* mutant of poll_device: a failing read degrades to a default value and the
\* SystemState is returned all the same
poll_device_partial(g) ==
  [panics |-> FALSE,
   state |-> [temperature |-> g.temperature,
              used |-> g.used,
              processes |-> ConcatProcesses(g)]]

\* poll_device on device answer g: every NVML read is unwrap()ed, so a failing
\* read panics and no SystemState is returned
poll_device(g) ==
  [panics |-> g.fail # "none",
   state |-> [temperature |-> g.temperature,
              used |-> g.used,
              processes |-> ConcatProcesses(g)]]

(* ------------------------- metric ring buffer ------------------------- *)

\* mutant of push_back: a full buffer drops its newest element
push_back_drops_newest(buf, v) ==
  IF Len(buf) < Capacity THEN Append(buf, v)
  ELSE Append(SubSeq(buf, 1, Len(buf) - 1), v)

\* CircularBuffer::push_back: appends, dropping the front element when full
push_back(buf, v) ==
  IF Len(buf) < Capacity THEN Append(buf, v) ELSE Append(Tail(buf), v)

\* buffer.iter().enumerate().map(|(i, &v)| [i as f64, v as f64])
PlotPoints(buf) == [i \in 1..Len(buf) |-> <<i - 1, buf[i]>>]

\* mem_info.used / 1_000_000 on u64
MemoryUsageMiB(used) == used \div 1000000

(* --------------------------- sort_processes --------------------------- *)

\* Ordering: Less = -1, Equal = 0, Greater = 1
CmpInt(a, b) == IF a < b THEN 0 - 1 ELSE IF a > b THEN 1 ELSE 0

\* String::cmp: lexicographic on the bytes, a proper prefix is Less
RECURSIVE CmpName(_, _)
CmpName(a, b) ==
  IF a = <<>> /\ b = <<>> THEN 0
  ELSE IF a = <<>> THEN 0 - 1
  ELSE IF b = <<>> THEN 1
  ELSE IF Head(a) # Head(b) THEN CmpInt(Head(a), Head(b))
  ELSE CmpName(Tail(a), Tail(b))

\* mutant of memory_of: Unavailable sorts above every usage
memory_of_unavailable_max(p) ==
  IF p.used_gpu_memory.tag = "Used" THEN p.used_gpu_memory.val
  ELSE 2147483647

\* match used_gpu_memory { Used(val) => val, Unavailable => 0 }
memory_of(p) ==
  IF p.used_gpu_memory.tag = "Used" THEN p.used_gpu_memory.val ELSE 0

\* the closure of sort_by: the comparison of the key, reversed when descending
sort_cmp(kind, descending, a, b) ==
  LET cmp == CASE kind = "Pid" -> CmpInt(a.pid, b.pid)
               [] kind = "Type" ->
                    CmpInt(ProcessKindOrd(a.process_kind),
                           ProcessKindOrd(b.process_kind))
               [] kind = "ProcessName" -> CmpName(a.process_name, b.process_name)
               [] kind = "Memory" -> CmpInt(memory_of(a), memory_of(b))
  IN IF descending THEN 0 - cmp ELSE cmp

\* x inserted behind every element that does not compare Greater than it
RECURSIVE InsertStable(_, _, _, _)
InsertStable(sorted, x, kind, descending) ==
  IF sorted = <<>> THEN <<x>>
  ELSE IF sort_cmp(kind, descending, Head(sorted), x) <= 0
       THEN <<Head(sorted)>> \o InsertStable(Tail(sorted), x, kind, descending)
       ELSE <<x>> \o sorted

\* x inserted in front of the first element that does not compare Less than it
RECURSIVE InsertUnstable(_, _, _, _)
InsertUnstable(sorted, x, kind, descending) ==
  IF sorted = <<>> THEN <<x>>
  ELSE IF sort_cmp(kind, descending, Head(sorted), x) < 0
       THEN <<Head(sorted)>> \o InsertUnstable(Tail(sorted), x, kind, descending)
       ELSE <<x>> \o sorted

\* mutant of sort_by: a sort that reverses the order of equal rows
RECURSIVE sort_by_unstable(_, _, _)
sort_by_unstable(rows, kind, descending) ==
  IF rows = <<>> THEN <<>>
  ELSE InsertUnstable(
         sort_by_unstable(SubSeq(rows, 1, Len(rows) - 1), kind, descending),
         rows[Len(rows)], kind, descending)

RECURSIVE SortAscending(_, _)
SortAscending(rows, kind) ==
  IF rows = <<>> THEN <<>>
  ELSE InsertStable(SortAscending(SubSeq(rows, 1, Len(rows) - 1), kind),
                    rows[Len(rows)], kind, FALSE)

\* mutant of sort_by: descending is the ascending sort followed by reverse()
sort_by_reversing(rows, kind, descending) ==
  LET asc == SortAscending(rows, kind)
  IN IF descending THEN [i \in 1..Len(asc) |-> asc[Len(asc) + 1 - i]] ELSE asc

\* slice::sort_by: a stable sort by the closure
RECURSIVE sort_by(_, _, _)
sort_by(rows, kind, descending) ==
  IF rows = <<>> THEN <<>>
  ELSE InsertStable(sort_by(SubSeq(rows, 1, Len(rows) - 1), kind, descending),
                    rows[Len(rows)], kind, descending)

\* ProcessTable::sort_processes: nothing happens while sort_kind is None
sort_processes(rows, kind, descending) ==
  IF kind = "None" THEN rows ELSE sort_by(rows, kind, descending)

(* ---------------------------- ProcessTable ---------------------------- *)

\* the pointer input of one frame: at most one widget is clicked
NoClick == [kind |-> "None", tab |-> "-", key |-> "-", row |-> 0 - 1]
TabClick(t) == [kind |-> "Tab", tab |-> t, key |-> "-", row |-> 0 - 1]
HeaderClick(k) == [kind |-> "Header", tab |-> "-", key |-> k, row |-> 0 - 1]
RowClick(i) == [kind |-> "Row", tab |-> "-", key |-> "-", row |-> i]

\* the sort fields and the rows of a ProcessTable
Table(kind, descending, rows) ==
  [sort_kind |-> kind, sort_descending |-> descending, processes |-> rows]

\* mutant of create_sortable_header: a new key keeps the direction in use
create_sortable_header_keeps_direction(t, k, clicked) ==
  IF ~clicked THEN t
  ELSE LET descending ==
             IF t.sort_kind = k THEN ~t.sort_descending ELSE t.sort_descending
       IN [sort_kind |-> k, sort_descending |-> descending,
           processes |-> sort_processes(t.processes, k, descending)]

\* mutant of create_sortable_header: a click on the active key in ascending
\* direction switches sorting off
create_sortable_header_tristate(t, k, clicked) ==
  IF ~clicked THEN t
  ELSE IF t.sort_kind = k /\ ~t.sort_descending
       THEN [sort_kind |-> "None", sort_descending |-> TRUE,
             processes |-> t.processes]
       ELSE LET descending == IF t.sort_kind = k THEN ~t.sort_descending ELSE TRUE
            IN [sort_kind |-> k, sort_descending |-> descending,
                processes |-> sort_processes(t.processes, k, descending)]

\* ProcessTable::create_sortable_header for the header of key k; clicked is
\* response.clicked()
create_sortable_header(t, k, clicked) ==
  IF ~clicked THEN t
  ELSE LET kind == k
           descending == IF t.sort_kind = k THEN ~t.sort_descending ELSE TRUE
       IN Table(kind, descending,
                sort_processes(t.processes, kind, descending))

\* mutant of toggle_row_selection: a clicked row is only ever inserted
toggle_row_selection_insert_only(sel, row_index, clicked) ==
  IF ~clicked THEN sel ELSE sel \cup {row_index}

\* ProcessTable::toggle_row_selection; clicked is row_response.clicked()
toggle_row_selection(sel, row_index, clicked) ==
  IF ~clicked THEN sel
  ELSE IF row_index \in sel THEN sel \ {row_index} ELSE sel \cup {row_index}

\* the four headers of table_ui, in the order they are created
HeadersUi(t, c) ==
  LET clicked(k) == c.kind = "Header" /\ c.key = k
      t1 == create_sortable_header(t, "Pid", clicked("Pid"))
      t2 == create_sortable_header(t1, "Type", clicked("Type"))
      t3 == create_sortable_header(t2, "ProcessName", clicked("ProcessName"))
  IN create_sortable_header(t3, "Memory", clicked("Memory"))

\* mutant of RowsUi: indices that are no row of the table are dropped from the
\* selection before the clicks are looked at
RowsUi_drops_stale(sel, rows, c) ==
  LET kept == {i \in sel : i < Len(rows)}
  IN IF c.kind = "Row" /\ c.row < Len(rows)
     THEN toggle_row_selection(kept, c.row, TRUE)
     ELSE kept

\* the body of table_ui: rows_to_toggle holds the rows whose response is
\* clicked, and each of them is toggled after the table has been drawn
RowsUi(sel, rows, c) ==
  LET rows_to_toggle ==
        {i \in 0..(Len(rows) - 1) : c.kind = "Row" /\ c.row = i}
  IN IF rows_to_toggle = {} THEN sel
     ELSE LET i == CHOOSE r \in rows_to_toggle : TRUE
          IN toggle_row_selection(sel, i, TRUE)

\* mutant of ShowPlotWindow: the negation is lost
ShowPlotWindow_inverted(sel) == sel = {}

\* self.show_plot_window = !self.selection.is_empty()
ShowPlotWindow(sel) == sel # {}

\* ProcessTable::table_ui on table t and selection sel with click c
table_ui(t, sel, c) ==
  LET t2 == HeadersUi(t, c)
      sel2 == RowsUi(sel, t2.processes, c)
  IN [table |-> t2, selection |-> sel2, show_plot_window |-> ShowPlotWindow(sel2)]

\* the tab bar of update
TabsUi(tab, c) == IF c.kind = "Tab" THEN c.tab ELSE tab

(* --------------------------- DeviceStatsPlot --------------------------- *)

\* DeviceStatsPlot::default: zoom_speed and scroll_speed; no code assigns them
zoom_speed == 1
scroll_speed == 1

Vec2(x, y) == [x |-> x, y |-> y]

\* lengths and factors are fixed-point numbers; One is 1.0 of a zoom factor
One == 10000

\* (n / 10.0).exp() as a fixed-point factor, for the exponents the scroll
\* steps of the model reach
exp_tenths(n) ==
  CASE n = 0 - 4 -> 6703
    [] n = 0 - 3 -> 7408
    [] n = 0 - 2 -> 8187
    [] n = 0 - 1 -> 9048
    [] n = 0 -> 10000
    [] n = 1 -> 11052
    [] n = 2 -> 12214
    [] n = 3 -> 13499
    [] n = 4 -> 14918

\* the control flags of a DeviceStatsPlot
Controls(lx, ly, cz, sh) ==
  [lock_x |-> lx, lock_y |-> ly, ctrl_to_zoom |-> cz, shift_to_horizontal |-> sh]

\* a bounds modification handed to egui_plot; by names the gesture it came from
Zoom(factor) == [op |-> "Zoom", by |-> "scroll", x |-> factor.x, y |-> factor.y]
Translate(by, delta) == [op |-> "Translate", by |-> by, x |-> delta.x, y |-> delta.y]

\* mutant of zoom_factor: each axis zooms by its own scroll component
zoom_factor_per_axis(p, scroll) ==
  Vec2(IF p.lock_x THEN One ELSE exp_tenths(scroll.x * zoom_speed),
       IF p.lock_y THEN One ELSE exp_tenths(scroll.y * zoom_speed))

\* mutant of zoom_factor: the locks are not looked at
zoom_factor_unlocked(p, scroll) ==
  LET splat == scroll.x + scroll.y
  IN Vec2(exp_tenths(splat * zoom_speed), exp_tenths(splat * zoom_speed))

\* the zoom branch of plot_ui: Vec2::splat(scroll.x + scroll.y), the factor
\* exp(scroll * zoom_speed / 10) of each axis, and 1.0 for a locked axis
zoom_factor(p, scroll) ==
  LET splat == Vec2(scroll.x + scroll.y, scroll.x + scroll.y)
      factor == Vec2(exp_tenths(splat.x * zoom_speed),
                     exp_tenths(splat.y * zoom_speed))
  IN Vec2(IF p.lock_x THEN One ELSE factor.x,
          IF p.lock_y THEN One ELSE factor.y)

\* mutant of scroll_translate: the locks zero the delta before the swap
scroll_translate_locks_first(p, shift, scroll) ==
  LET locked == Vec2(IF p.lock_x THEN 0 ELSE scroll.x,
                     IF p.lock_y THEN 0 ELSE scroll.y)
      swapped == IF shift = p.shift_to_horizontal
                 THEN Vec2(locked.y, locked.x) ELSE locked
  IN Vec2(scroll_speed * swapped.x, scroll_speed * swapped.y)

\* the pan branch of plot_ui: the swap of x and y, then the locks, then
\* scroll_speed * scroll
scroll_translate(p, shift, scroll) ==
  LET swapped == IF shift = p.shift_to_horizontal
                 THEN Vec2(scroll.y, scroll.x) ELSE scroll
      locked == Vec2(IF p.lock_x THEN 0 ELSE swapped.x,
                     IF p.lock_y THEN 0 ELSE swapped.y)
  IN Vec2(scroll_speed * locked.x, scroll_speed * locked.y)

\* mutant of scroll_ui: ctrl alone decides, whatever ctrl_to_zoom is
scroll_ui_ctrl_zooms(p, ev) ==
  IF ev.scroll = <<>> THEN <<>>
  ELSE IF ev.ctrl
       THEN <<Zoom(zoom_factor(p, ev.scroll[1]))>>
       ELSE <<Translate("scroll", scroll_translate(p, ev.shift, ev.scroll[1]))>>

\* if let Some(mut scroll) = scroll { .. }: the modification a scroll event
\* of the frame makes plot_ui issue
scroll_ui(p, ev) ==
  IF ev.scroll = <<>> THEN <<>>
  ELSE IF ev.ctrl = p.ctrl_to_zoom
       THEN <<Zoom(zoom_factor(p, ev.scroll[1]))>>
       ELSE <<Translate("scroll", scroll_translate(p, ev.shift, ev.scroll[1]))>>

\* mutant of drag_ui: a pressed pointer pans wherever it is
drag_ui_anywhere(p, ev) ==
  IF ev.pointer_down
  THEN <<Translate("drag", Vec2(IF p.lock_x THEN 0 ELSE 0 - ev.drag_delta.x,
                                IF p.lock_y THEN 0 ELSE 0 - ev.drag_delta.y))>>
  ELSE <<>>

\* mutant of drag_ui: the locks are not looked at
drag_ui_unlocked(p, ev) ==
  IF ev.hovered /\ ev.pointer_down
  THEN <<Translate("drag", Vec2(0 - ev.drag_delta.x, 0 - ev.drag_delta.y))>>
  ELSE <<>>

\* if plot_ui.response().hovered() && pointer_down { .. }: the negated drag
\* delta with the locked axes zeroed
drag_ui(p, ev) ==
  IF ev.hovered /\ ev.pointer_down
  THEN LET pointer_translate == Vec2(0 - ev.drag_delta.x, 0 - ev.drag_delta.y)
       IN <<Translate("drag", Vec2(IF p.lock_x THEN 0 ELSE pointer_translate.x,
                                   IF p.lock_y THEN 0 ELSE pointer_translate.y))>>
  ELSE <<>>

\* the bounds modifications of one plot_ui, in the order they are issued
plot_ui(p, ev) == scroll_ui(p, ev) \o drag_ui(p, ev)

\* the plot coordinate of the pointer, the centre of a zoom
PointerCoordinate == Vec2(0, 0)

\* one axis [min, max] zoomed by factor f around c
ZoomAxis(axis, f, c) ==
  [min |-> c + ((axis.min - c) * One) \div f,
   max |-> c + ((axis.max - c) * One) \div f]

TranslateAxis(axis, d) == [min |-> axis.min + d, max |-> axis.max + d]

\* egui_plot applying one modification to the bounds b
Modify(b, m) ==
  IF m.op = "Zoom"
  THEN [x |-> ZoomAxis(b.x, m.x, PointerCoordinate.x),
        y |-> ZoomAxis(b.y, m.y, PointerCoordinate.y)]
  ELSE [x |-> TranslateAxis(b.x, m.x), y |-> TranslateAxis(b.y, m.y)]

\* egui_plot applying the modifications of a frame in the order of their issue
RECURSIVE ApplyModifications(_, _)
ApplyModifications(b, ms) ==
  IF ms = <<>> THEN b
  ELSE ApplyModifications(Modify(b, Head(ms)), Tail(ms))

\* the bounds a plot starts from
FirstBounds == [x |-> [min |-> 0 - 40, max |-> 60], y |-> [min |-> 0 - 20, max |-> 80]]

\* the window events of one frame: dt is the time since the frame before began,
\* close is viewport().close_requested(), scroll the first MouseWheel delta
Events(dt, close, scroll, ctrl, shift, hovered, pointer_down, drag_delta) ==
  [dt |-> dt, close |-> close, scroll |-> scroll, ctrl |-> ctrl, shift |-> shift,
   hovered |-> hovered, pointer_down |-> pointer_down, drag_delta |-> drag_delta]

\* a frame that neither scrolls, drags nor closes, 16 ms after the one before
Quiet == Events(16, FALSE, <<>>, FALSE, FALSE, FALSE, FALSE, Vec2(0, 0))

(* ------------------------------- update ------------------------------- *)

\* the clicks a frame can receive: the tab bar is always drawn; headers and
\* rows are drawn only while the Processes tab is shown, and the rows drawn are
\* those of the snapshot of this frame
Clicks(g) ==
  {NoClick, TabClick("Devices"), TabClick("Processes")}
  \cup (IF current_tab = "Processes"
        THEN {HeaderClick(k) : k \in SortKinds}
             \cup {RowClick(i) : i \in 0..(Len(ConcatProcesses(g)) - 1)}
        ELSE {})

\* poll_device panics: update unwinds at its first statement and the process
\* ends; nothing of MyApp has been assigned
Panic(g) ==
  /\ running' = FALSE
  /\ polled' = <<g>>
  /\ UNCHANGED <<current_state, current_tab, sort_descending, sort_kind,
                 processes, show_plot_window, selection, temperature_vals,
                 memory_usage_vals, lock_x, lock_y, ctrl_to_zoom,
                 shift_to_horizontal, bounds, modifications, now, input,
                 events, history>>

\* mutant of publish: a snapshot that is there is not overwritten
publish_keeps_first(cur, s) == IF cur = <<>> THEN <<s>> ELSE cur

\* self.current_state = Some(system_state.clone())
publish(cur, s) == <<s>>

\* mutant of replace_rows: the rows of the snapshot are added to those there
replace_rows_extending(rows, s) == rows \o s.processes

\* self.process_table.processes = ..process_state.processes.clone()
replace_rows(rows, s) == s.processes

\* mutant of push_metrics: a memory value equal to the newest one in the buffer
\* is not pushed again
push_metrics_skips_repeats(tv, mv, s) ==
  [temperature_vals |-> push_back(tv, s.temperature),
   memory_usage_vals |->
     IF mv # <<>> /\ mv[Len(mv)] = MemoryUsageMiB(s.used)
     THEN mv ELSE push_back(mv, MemoryUsageMiB(s.used))]

\* the two push_back calls of update: the temperature and the memory usage of
\* the same SystemState, one value into each buffer
push_metrics(tv, mv, s) ==
  [temperature_vals |-> push_back(tv, s.temperature),
   memory_usage_vals |-> push_back(mv, MemoryUsageMiB(s.used))]

\* update with a SystemState s returned by poll_device, click c and window
\* events ev; eframe ends the program after a frame that saw close_requested
Frame(g, s, c, ev) ==
  LET sorted == sort_processes(replace_rows(processes, s), sort_kind, sort_descending)
      tab == TabsUi(current_tab, c)
      ui == IF tab = "Processes"
            THEN table_ui(Table(sort_kind, sort_descending, sorted), selection, c)
            ELSE [table |-> Table(sort_kind, sort_descending, sorted),
                  selection |-> selection,
                  show_plot_window |-> show_plot_window]
      pushed == push_metrics(temperature_vals, memory_usage_vals, s)
      plotted == IF tab = "Devices"
                 THEN plot_ui(Controls(lock_x, lock_y, ctrl_to_zoom,
                                       shift_to_horizontal), ev)
                 ELSE <<>>
  IN /\ current_state' = publish(current_state, s)
     /\ temperature_vals' = pushed.temperature_vals
     /\ memory_usage_vals' = pushed.memory_usage_vals
     /\ current_tab' = tab
     /\ processes' = ui.table.processes
     /\ sort_kind' = ui.table.sort_kind
     /\ sort_descending' = ui.table.sort_descending
     /\ selection' = ui.selection
     /\ show_plot_window' = ui.show_plot_window
     /\ modifications' = plotted
     /\ bounds' = ApplyModifications(bounds, plotted)
     /\ UNCHANGED <<lock_x, lock_y, ctrl_to_zoom, shift_to_horizontal>>
     /\ running' = ~ev.close
     /\ now' = now + ev.dt
     /\ polled' = <<g>>
     /\ input' = c
     /\ events' = ev
     /\ history' = Append(history, [temperature |-> s.temperature,
                                    used |-> MemoryUsageMiB(s.used),
                                    at |-> now + ev.dt])

\* MyApp::update, one frame, on device answer g, click c and window events ev
update(g, c, ev) ==
  /\ running
  /\ Len(history) < MaxFrames
  /\ c \in Clicks(g)
  /\ LET r == poll_device(g)
     IN IF r.panics THEN Panic(g) ELSE Frame(g, r.state, c, ev)

\* MyApp::new and ProcessTable::default, and what DeviceStatsPlot::default
\* gives besides the control flags
Constructed ==
  /\ running = TRUE
  /\ current_state = <<>>
  /\ current_tab = "Devices"
  /\ sort_descending = TRUE
  /\ sort_kind = "None"
  /\ processes = <<>>
  /\ show_plot_window = FALSE
  /\ selection = {}
  /\ temperature_vals = <<>>
  /\ memory_usage_vals = <<>>
  /\ bounds = FirstBounds
  /\ modifications = <<>>
  /\ now = 0
  /\ polled = <<>>
  /\ input = NoClick
  /\ events = Quiet
  /\ history = <<>>

\* the program after MyApp::new: DeviceStatsPlot::default clears the four flags
Init ==
  /\ Constructed
  /\ lock_x = FALSE
  /\ lock_y = FALSE
  /\ ctrl_to_zoom = FALSE
  /\ shift_to_horizontal = FALSE

(* --------------------------- the environment -------------------------- *)

\* one ProcessInfo of an enumeration with the answer of sys_process_name
Info(pid, mem, name) == [pid |-> pid, used_gpu_memory |-> mem, name |-> name]

\* what the device answers during one poll_device: fail names the read that
\* returns Err ("none": every read succeeds)
Answer(fail, t, u, gr, co) ==
  [fail |-> fail, temperature |-> t, used |-> u, graphics |-> gr, compute |-> co]

\* the (temperature, mem_info.used) readings of Spec
Readings ==
  {[temperature |-> 40, used |-> 1999999],
   [temperature |-> 41, used |-> 200000000],
   [temperature |-> 42, used |-> 2000000]}

\* the process enumerations of Spec
Enumerations ==
  {[graphics |-> <<>>, compute |-> <<>>],
   [graphics |-> <<Info(10, Used(200000000), NameOk(NameA))>>,
    compute |-> <<Info(5, Unavailable, NameErr)>>]}

Devices ==
  {Answer("none", r.temperature, r.used, e.graphics, e.compute) :
     r \in Readings, e \in Enumerations}
  \cup {Answer(f, 0, 0, <<>>, <<>>) : f \in FatalReads}

\* NVML is initialised lazily by the first poll_device and never again
Possible(g) == g.fail = "init" => polled = <<>>

Next == \E g \in Devices : \E c \in Clicks(g) : Possible(g) /\ update(g, c, Quiet)

Spec == Init /\ [][Next]_vars

\* SortSpec: a device whose process enumerations are any lists of at most
\* MaxRows processes and stay the same from frame to frame; the pointer clicks
\* tabs and headers
SortInfos ==
  {Info(5, Unavailable, NameErr), Info(10, Unavailable, NameOk(NameAB)),
   Info(5, Used(0), NameOk(NameAB)), Info(10, Used(0), NameOk(NameA)),
   Info(5, Used(200000000), NameOk(NameA)), Info(10, Used(200000000), NameErr)}

RECURSIVE SeqsUpTo(_, _)
SeqsUpTo(S, n) ==
  IF n = 0 THEN {<<>>}
  ELSE LET shorter == SeqsUpTo(S, n - 1)
       IN shorter \cup {Append(q, x) : q \in shorter, x \in S}

SortDevices ==
  {Answer("none", 40, 1999999, gr, co) :
     gr \in SeqsUpTo(SortInfos, MaxRows), co \in SeqsUpTo(SortInfos, MaxRows)}

NextSort ==
  \E g \in (IF polled = <<>>
            THEN {d \in SortDevices : Len(d.graphics) + Len(d.compute) <= MaxRows}
            ELSE {polled[1]}) :
    \E c \in {x \in Clicks(g) : x.kind # "Row"} : update(g, c, Quiet)

SortSpec == Init /\ [][NextSort]_vars

\* LoopSpec: frames follow each other after any of these times (ms), and the
\* window may be asked to close in any frame; nothing is clicked
FrameTimes == {5, 30, 100}

LoopEvents ==
  {Events(dt, close, <<>>, FALSE, FALSE, FALSE, FALSE, Vec2(0, 0)) :
     dt \in FrameTimes, close \in BOOLEAN}

LoopDevices == {Answer("none", r.temperature, r.used, <<>>, <<>>) : r \in Readings}

NextLoop ==
  \E g \in LoopDevices : \E ev \in LoopEvents : update(g, NoClick, ev)

LoopSpec == Init /\ [][NextLoop]_vars

\* ViewSpec: plot_ui as a function of the DeviceStatsPlot it is called on and
\* the pointer and keyboard input of a frame. The control flags are any four
\* booleans; the Devices tab stays shown and MaxGestures frames are drawn
Scrolls ==
  {<<>>, <<Vec2(0, 2)>>, <<Vec2(0 - 2, 0)>>, <<Vec2(2, 2)>>, <<Vec2(2, 0 - 2)>>}

\* the pointer of a frame: away from the plot or over it, up or pressed, and
\* moved by drag_delta while pressed
Pointers ==
  {[hovered |-> h, pointer_down |-> d,
    drag_delta |-> IF d THEN Vec2(3, 0 - 1) ELSE Vec2(0, 0)] : h, d \in BOOLEAN}

ViewEvents ==
  {Events(16, FALSE, sc, ctrl, shift, p.hovered, p.pointer_down, p.drag_delta) :
     sc \in Scrolls, ctrl \in BOOLEAN, shift \in BOOLEAN, p \in Pointers}

ViewDevice == Answer("none", 40, 1999999, <<>>, <<>>)

InitView ==
  /\ Constructed
  /\ lock_x \in BOOLEAN
  /\ lock_y \in BOOLEAN
  /\ ctrl_to_zoom \in BOOLEAN
  /\ shift_to_horizontal \in BOOLEAN

NextView ==
  /\ Len(history) < MaxGestures
  /\ \E ev \in ViewEvents : update(ViewDevice, NoClick, ev)

ViewSpec == InitView /\ [][NextView]_vars

(* ------------------------------ claims -------------------------------- *)

Min(a, b) == IF a < b THEN a ELSE b

\* the last n elements of a sequence, in order
LastN(seq, n) == SubSeq(seq, Len(seq) - n + 1, Len(seq))

\* C1: after N pushes into a ring buffer of capacity C that started empty, the
\* buffer holds min(N, C) values, and they are the last min(N, C) values pushed,
\* in push order, the oldest at index 0 of the iteration; so a push into a full
\* buffer succeeded and evicted the oldest value only.
C1_RingBufferHoldsLastPushes ==
  LET N == Len(history)
      n == Min(N, Capacity)
      last == LastN(history, n)
  IN /\ Len(temperature_vals) = n
     /\ Len(memory_usage_vals) = n
     /\ temperature_vals = [i \in 1..n |-> last[i].temperature]
     /\ memory_usage_vals = [i \in 1..n |-> last[i].used]
     /\ PlotPoints(temperature_vals) = [i \in 1..n |-> <<i - 1, last[i].temperature>>]
     /\ PlotPoints(memory_usage_vals) = [i \in 1..n |-> <<i - 1, last[i].used>>]

\* the example of the specification, scaled to Capacity: more temperatures were
\* pushed than the buffer holds, all different, and the oldest is gone
C1_Witness ==
  /\ Len(history) = Capacity + 1
  /\ \A i, j \in 1..Len(history) :
       i # j => history[i].temperature # history[j].temperature
  /\ Len(temperature_vals) = Capacity
  /\ temperature_vals[1] = history[2].temperature
  /\ temperature_vals[Capacity] = history[Capacity + 1].temperature

\* C2: a click on the header of key k flips the direction and keeps the key
\* when k is the active key; otherwise (another key or no key active) k becomes
\* the active key and the direction becomes descending, whatever it was.
C2_HeaderClickRule ==
  [][input'.kind = "Header" /\ running' =>
       LET k == input'.key
       IN /\ sort_kind' = k
          /\ sort_descending' = (IF sort_kind = k THEN ~sort_descending ELSE TRUE)]_vars

\* a click on the active key's header has flipped descending to ascending
C2_Witness ==
  /\ input.kind = "Header"
  /\ sort_kind = input.key
  /\ ~sort_descending

\* the rows a frame hands to its last sort: the snapshot of the frame, or, when
\* a header was clicked, the rows update's own sort left
RowsBeforeLastSort ==
  IF input'.kind = "Header"
  THEN sort_processes(ConcatProcesses(polled'[1]), sort_kind, sort_descending)
  ELSE ConcatProcesses(polled'[1])

\* a is strictly before b in the lexicographic order of byte strings
LexLess(a, b) ==
  \E i \in 1..(Min(Len(a), Len(b)) + 1) :
    /\ \A j \in 1..(i - 1) : a[j] = b[j]
    /\ \/ i = Len(a) + 1 /\ i <= Len(b)
       \/ i <= Len(a) /\ i <= Len(b) /\ a[i] < b[i]

\* row a may stand before row b under the key in ascending order
KeyLeq(kind, a, b) ==
  CASE kind = "Pid" -> a.pid <= b.pid
    [] kind = "Type" -> a.process_kind = "Compute" \/ b.process_kind = "Graphics"
    [] kind = "ProcessName" ->
         a.process_name = b.process_name \/ LexLess(a.process_name, b.process_name)
    [] kind = "Memory" ->
         (IF a.used_gpu_memory = Unavailable THEN 0 ELSE a.used_gpu_memory.val)
           <= (IF b.used_gpu_memory = Unavailable THEN 0 ELSE b.used_gpu_memory.val)

KeyEq(kind, a, b) == KeyLeq(kind, a, b) /\ KeyLeq(kind, b, a)

\* the rows of seq whose key equals that of x, in the order of seq
SameKeyRows(seq, kind, x) ==
  LET Same(y) == KeyEq(kind, x, y) IN SelectSeq(seq, Same)

\* after is before re-ordered by the key in the direction, equal keys in the
\* order they had in before
SortContract(before, after, kind, descending) ==
  /\ Len(after) = Len(before)
  /\ \A i, j \in 1..Len(after) :
       i < j => IF descending THEN KeyLeq(kind, after[j], after[i])
                ELSE KeyLeq(kind, after[i], after[j])
  /\ \A i \in 1..Len(before) :
       SameKeyRows(after, kind, before[i]) = SameKeyRows(before, kind, before[i])

\* C3: with an active key, sort() leaves a permutation of the rows it was
\* given, ordered by the key's comparator in the active direction, rows with
\* equal keys in the relative order they had before the call, ascending and
\* descending alike.
C3_SortIsStablePermutation ==
  [][running' /\ sort_kind' # "None" =>
       SortContract(RowsBeforeLastSort, processes', sort_kind', sort_descending')]_vars

\* an ascending and a descending sort have each kept two different rows with
\* equal keys in the order of the snapshot
C3_Witness ==
  /\ sort_kind = "Pid"
  /\ Len(processes) >= 2
  /\ processes[1].pid = processes[2].pid
  /\ processes[1] # processes[2]
  /\ processes = current_state[1].processes
  /\ input = HeaderClick("Pid")
  /\ ~sort_descending

\* GPU memory usage of a row is unavailable, or is 0
ZeroOrUnavailable(p) ==
  p.used_gpu_memory = Unavailable \/ p.used_gpu_memory = Used(0)

\* C4: in a sort by Memory a row whose usage is unavailable is ordered as a
\* row of usage 0: the unavailable rows and the rows of usage 0 keep their
\* relative order, and in descending direction no unavailable row stands before
\* a row of usage greater than 0 (in ascending direction, none stands after one).
C4_UnavailableSortsAsZero ==
  [][running' /\ sort_kind' = "Memory" =>
       /\ SelectSeq(processes', ZeroOrUnavailable)
            = SelectSeq(RowsBeforeLastSort, ZeroOrUnavailable)
       /\ \A i, j \in 1..Len(processes') :
            (/\ i < j
             /\ processes'[IF sort_descending' THEN i ELSE j].used_gpu_memory = Unavailable)
            => ~(/\ processes'[IF sort_descending' THEN j ELSE i].used_gpu_memory.tag = "Used"
                 /\ processes'[IF sort_descending' THEN j ELSE i].used_gpu_memory.val > 0)]_vars

\* sorted by Memory descending: a row of usage 200 MB was moved in front of an
\* unavailable row that preceded it in the snapshot
C4_Witness ==
  /\ sort_kind = "Memory"
  /\ sort_descending
  /\ Len(processes) = 2
  /\ processes[1].used_gpu_memory = Used(200000000)
  /\ processes[2].used_gpu_memory = Unavailable
  /\ current_state[1].processes[1] = processes[2]

\* the table after two clicks on the header of its active key
ClickedTwice(t) ==
  create_sortable_header(create_sortable_header(t, t.sort_kind, TRUE),
                         t.sort_kind, TRUE)

C6_ToggleRowFlipsOneIndex ==
  [][input'.kind = "Row" /\ running' =>
       LET i == input'.row
       IN /\ (i \in selection') = (i \notin selection)
          /\ selection' \ {i} = selection \ {i}
          /\ toggle_row_selection(selection', i, TRUE) = selection]_vars

\* row 0 was clicked and is no longer selected, row 1 still is
C6_Witness ==
  /\ input = RowClick(0)
  /\ selection = {1}

\* C7: at the end of every frame show_plot_window is true exactly when the
\* selection set is non-empty.
C7_PlotWindowIffSelection == show_plot_window <=> selection # {}

\* a row is selected, the flag is set, and the frame that ended showed the
\* Devices tab (table_ui did not run in it)
C7_Witness ==
  /\ show_plot_window
  /\ selection # {}
  /\ current_tab = "Devices"
  /\ input = TabClick("Devices")

\* the device attributes poll_device reads into DeviceState
AttributeReads ==
  {"name", "sys_driver_version", "sys_cuda_driver_version", "temperature",
   "memory_info"}

\* C8: when a device-attribute read fails during a sample, the current
\* snapshot, the process rows and both metric ring buffers are what they were
\* before that sample: nothing of the failed sample is published.
C8_FailedSampleIsDiscarded ==
  [][polled'[1].fail \in AttributeReads =>
       /\ current_state' = current_state
       /\ processes' = processes
       /\ temperature_vals' = temperature_vals
       /\ memory_usage_vals' = memory_usage_vals]_vars

\* the temperature read failed after samples had been published
C8_Witness ==
  /\ polled # <<>>
  /\ polled[1].fail = "temperature"
  /\ current_state # <<>>
  /\ Len(temperature_vals) = Capacity

\* C9: when sys_process_name fails for a process of either kind and every
\* other read succeeds, the sample completes with one record per enumerated
\* process, and the record of that process carries its pid and the placeholder
\* name.
C9_NameFailureGivesPlaceholder ==
  [][polled'[1].fail = "none" =>
       LET g == polled'[1]
           infos == g.graphics \o g.compute
       IN /\ running'
          /\ current_state' # <<>>
          /\ Len(current_state'[1].processes) = Len(infos)
          /\ \A i \in 1..Len(infos) :
               /\ current_state'[1].processes[i].pid = infos[i].pid
               /\ ~infos[i].name.ok =>
                    current_state'[1].processes[i].process_name = Unknown]_vars

\* a sample in which the name lookup failed for a graphics process and for a
\* compute process
C9_Witness ==
  /\ running
  /\ polled # <<>>
  /\ \E i \in 1..Len(polled[1].graphics) : ~polled[1].graphics[i].name.ok
  /\ \E i \in 1..Len(polled[1].compute) : ~polled[1].compute[i].name.ok
  /\ \A i \in 1..Len(current_state[1].processes) :
       current_state[1].processes[i].process_name = Unknown

\* C10: no device-query error, fatal or transient, ends the program: after it
\* the presentation loop keeps running frames.
C10_QueryErrorNeverEndsProgram ==
  (polled # <<>> /\ polled[1].fail # "none") => running

\* the reads of one attribute of a device that is there: an Err of one of them
\* alone (an unsupported sensor) is a transient query error, while Nvml::init
\* and device_by_index fail when the subsystem or the device is not there
TransientReads == FatalReads \ {"init", "device_by_index"}

\* C11: a frame whose query error is fatal ends all sampling; a frame whose
\* query error is transient appends nothing to either ring buffer and leaves
\* the loop alive, so that the next frame samples again.
C11_ErrorStopsOrSkipsTick ==
  [][/\ polled'[1].fail \in {"init", "device_by_index"} => ~running'
     /\ polled'[1].fail \in TransientReads =>
          /\ temperature_vals' = temperature_vals
          /\ memory_usage_vals' = memory_usage_vals
          /\ history' = history
          /\ running']_vars

\* C12: a frame in which the read of one fan's speed fails still produces its
\* snapshot, with the device attributes read in that frame, and plots it.
C12_FanFailureKeepsSample ==
  [][polled'[1].fail = "fan_speed" =>
       /\ current_state' = <<poll_device(polled'[1]).state>>
       /\ Len(history') = Len(history) + 1]_vars

\* C13: the loop never leaves Stopped, and the stop signal is looked at before
\* the sample of an iteration: a frame whose input holds close_requested takes
\* no sample and appends nothing, and the loop is stopped after it.
C13_StopSeenBeforeSampling ==
  [][/\ ~running => ~running'
     /\ events'.close =>
          /\ ~running'
          /\ history' = history
          /\ temperature_vals' = temperature_vals
          /\ memory_usage_vals' = memory_usage_vals]_vars

\* C14: what the panels of a frame are drawn from is the snapshot produced
\* last: there is none before the first sample, and after every sample it is
\* the newest of the production order, never one produced before it.
C14_SeesLatestSnapshot ==
  /\ (current_state = <<>>) <=> (history = <<>>)
  /\ history # <<>> =>
       LET newest == history[Len(history)]
       IN /\ current_state[1].temperature = newest.temperature
          /\ MemoryUsageMiB(current_state[1].used) = newest.used

\* a second snapshot that differs from the first has replaced it
C14_Witness ==
  /\ Len(history) = 2
  /\ history[1].temperature # history[2].temperature
  /\ current_state # <<>>
  /\ current_state[1].temperature = history[2].temperature

\* C15: samples follow a schedule with a fixed origin: with the interval being
\* the time from the start to the first sample, the k-th sample is not taken
\* before start + k * interval, however long the frames before it took.
C15_TicksFromFixedOrigin ==
  \A k \in 1..Len(history) : history[k].at >= k * history[1].at

\* C16: appends to the metric buffers are throttled: two consecutive appends
\* are at least the throttle interval apart (20 ms, the interval the
\* specification names), however fast frames follow each other.
C16_AppendsAreThrottled ==
  \A k \in 1..(Len(history) - 1) : history[k + 1].at - history[k].at >= 20

\* the modifications of the last frame that its scroll event caused
ScrollModifications == SelectSeq(modifications, LAMBDA m : m.by = "scroll")

\* C17: a frame with a scroll event issues exactly one modification for it: a
\* zoom if ctrl pressed equals ctrl_to_zoom and a pan otherwise. Of a zoom, the
\* factor of a locked axis is 1 and that of an unlocked axis is the factor of
\* the scalar dx + dy, which is not 1 unless dx + dy is 0.
C17_ScrollZoomsOrPans ==
  events.scroll # <<>> =>
    /\ Len(ScrollModifications) = 1
    /\ LET m == ScrollModifications[1]
           scalar == events.scroll[1].x + events.scroll[1].y
           factor(locked, f) ==
             /\ locked => f = One
             /\ ~locked => f = exp_tenths(scalar * zoom_speed)
             /\ ~locked /\ scalar # 0 => f # One
       IN /\ m.op = "Zoom" <=> events.ctrl = ctrl_to_zoom
          /\ m.op = "Translate" <=> events.ctrl # ctrl_to_zoom
          /\ m.op = "Zoom" => factor(lock_x, m.x) /\ factor(lock_y, m.y)

\* the example of the specification: ctrl_to_zoom set, ctrl pressed, scroll
\* delta (0, 2), y locked: the y factor is 1 and the x factor is not
C17_Witness ==
  /\ ctrl_to_zoom /\ events.ctrl
  /\ events.scroll = <<Vec2(0, 2)>>
  /\ lock_y /\ ~lock_x
  /\ ScrollModifications # <<>>
  /\ ScrollModifications[1].op = "Zoom"
  /\ ScrollModifications[1].y = One
  /\ ScrollModifications[1].x # One

\* C18: in a frame whose scroll event pans (ctrl pressed differs from
\* ctrl_to_zoom), the pan is scroll_speed times the delta with x and y swapped
\* if and only if shift pressed equals shift_to_horizontal; the locks act on
\* the swapped delta, so that the pan of a locked axis is 0 and the pan of an
\* unlocked axis is the component the swap has put on it.
C18_ScrollPanSwapsThenLocks ==
  events.scroll # <<>> /\ events.ctrl # ctrl_to_zoom =>
    /\ ScrollModifications # <<>>
    /\ LET m == ScrollModifications[1]
           delta == events.scroll[1]
           swap == events.shift = shift_to_horizontal
       IN /\ m.op = "Translate"
          /\ lock_x => m.x = 0
          /\ lock_y => m.y = 0
          /\ ~lock_x => m.x = scroll_speed * (IF swap THEN delta.y ELSE delta.x)
          /\ ~lock_y => m.y = scroll_speed * (IF swap THEN delta.x ELSE delta.y)

\* a vertical scroll is swapped onto the locked x axis: nothing is panned,
\* where locking before the swap would have panned x
C18_Witness ==
  /\ events.scroll = <<Vec2(0, 2)>>
  /\ events.ctrl # ctrl_to_zoom
  /\ events.shift = shift_to_horizontal
  /\ lock_x /\ ~lock_y
  /\ ScrollModifications = <<Translate("scroll", Vec2(0, 0))>>

\* the modifications of the last frame that a drag caused
DragModifications == SelectSeq(modifications, LAMBDA m : m.by = "drag")

\* C19: a frame pans by a drag if and only if the pointer hovers the plot and
\* is pressed; the pan is the negated drag delta with 0 on every locked axis,
\* and it is issued after, and whatever, the scroll event of the frame did. So
\* the bounds of a locked axis are the same after the frame as before it.
C19_DragPansAndLocksHold ==
  [][/\ Len(DragModifications') = (IF events'.hovered /\ events'.pointer_down THEN 1 ELSE 0)
     /\ modifications' = ScrollModifications' \o DragModifications'
     /\ Len(ScrollModifications') = (IF events'.scroll # <<>> THEN 1 ELSE 0)
     /\ DragModifications' # <<>> =>
          LET m == DragModifications'[1]
          IN /\ m.op = "Translate"
             /\ m.x = (IF lock_x THEN 0 ELSE 0 - events'.drag_delta.x)
             /\ m.y = (IF lock_y THEN 0 ELSE 0 - events'.drag_delta.y)
     /\ lock_x => bounds'.x = bounds.x
     /\ lock_y => bounds'.y = bounds.y]_vars

\* a frame that zooms by its scroll event and pans by a drag, with x locked:
\* the y bounds have moved and the x bounds have not
C19_Witness ==
  /\ lock_x /\ ~lock_y
  /\ Len(modifications) = 2
  /\ modifications[1].op = "Zoom"
  /\ modifications[2] = Translate("drag", Vec2(0, 1))
  /\ bounds.x = FirstBounds.x
  /\ bounds.y # FirstBounds.y

\* how many rows of seq are the row r
Count(seq, r) == Cardinality({i \in 1..Len(seq) : seq[i] = r})

\* C20: the rows of the table are those of the newest snapshot, each as often
\* as the snapshot has it, and they stand in the order of the active key and
\* direction (in the order of the snapshot while no key is active).
C20_RowsAreNewestSnapshotSorted ==
  current_state # <<>> =>
    LET snapshot == current_state[1].processes
    IN /\ Len(processes) = Len(snapshot)
       /\ \A i \in 1..Len(snapshot) :
            Count(processes, snapshot[i]) = Count(snapshot, snapshot[i])
       /\ sort_kind = "None" => processes = snapshot
       /\ sort_kind # "None" =>
            \A i, j \in 1..Len(processes) :
              i < j => IF sort_descending
                       THEN KeyLeq(sort_kind, processes[j], processes[i])
                       ELSE KeyLeq(sort_kind, processes[i], processes[j])

\* a frame without a click has put the two rows of its snapshot into the
\* ascending order of the active key, which is not the order of the snapshot
C20_Witness ==
  /\ input = NoClick
  /\ sort_kind = "Pid" /\ ~sort_descending
  /\ Len(processes) = 2
  /\ processes # current_state[1].processes
  /\ processes[1].pid < processes[2].pid

\* the records of seq that carry the kind, in the order of seq
OfKind(seq, kind) == SelectSeq(seq, LAMBDA p : p.process_kind = kind)

\* record p was built from the ProcessInfo info of an enumeration: its pid and
\* memory, and the name sys_process_name returned for that pid if it returned one
BuiltFrom(p, info) ==
  /\ p.pid = info.pid
  /\ p.used_gpu_memory = info.used_gpu_memory
  /\ info.name.ok => p.process_name = info.name.name

\* C21: the process list of a snapshot has as many records as the graphics and
\* the compute enumeration hold together; its records of each kind are those
\* built from the enumeration of that kind, one per process, in the order of
\* the enumeration, each with the name resolved for its own pid.
C21_ProcessListIsConcatenation ==
  (running /\ polled # <<>> /\ polled[1].fail = "none") =>
    LET snapshot == current_state[1].processes
        g == polled[1]
        from(kind, infos) ==
          /\ Len(OfKind(snapshot, kind)) = Len(infos)
          /\ \A i \in 1..Len(infos) : BuiltFrom(OfKind(snapshot, kind)[i], infos[i])
    IN /\ Len(snapshot) = Len(g.compute) + Len(g.graphics)
       /\ from("Graphics", g.graphics)
       /\ from("Compute", g.compute)

\* a snapshot of one graphics and one compute process with different pids and
\* names
C21_Witness ==
  /\ running
  /\ polled # <<>>
  /\ Len(polled[1].graphics) = 1
  /\ Len(polled[1].compute) = 1
  /\ polled[1].graphics[1].pid # polled[1].compute[1].pid
  /\ polled[1].graphics[1].name.ok /\ polled[1].compute[1].name.ok
  /\ polled[1].graphics[1].name # polled[1].compute[1].name
  /\ Len(current_state[1].processes) = 2
  /\ current_state[1].processes[1].process_kind = "Graphics"
  /\ current_state[1].processes[2].process_kind = "Compute"

\* C22: a frame in which no row is clicked leaves the selection set as it was,
\* whatever it does to the rows (a new snapshot, the re-sort), to the sort
\* state (a header click) or to the tab; so does a frame that panics.
C22_OnlyRowClickChangesSelection ==
  [][(~running' \/ input'.kind # "Row") => selection' = selection]_vars

\* index 1 is still selected after a frame without a click whose snapshot has
\* no process: the index is no row of the table any more
C22_Witness ==
  /\ running
  /\ input = NoClick
  /\ current_tab = "Processes"
  /\ 1 \in selection
  /\ processes = <<>>

\* C23: the table starts without an active key, in descending direction.
\* While no key is active the rows of a frame are its snapshot, in snapshot
\* order. An active key never gives way to no key, and the key and the
\* direction are the same after a frame as before it unless a header was
\* clicked in that frame.
C23_SortStateOnlyByHeaderClick ==
  /\ sort_kind = "None"
  /\ sort_descending = TRUE
  /\ [][/\ sort_kind' \in SortKinds \cup {"None"}
        /\ sort_kind # "None" => sort_kind' # "None"
        /\ ~(running' /\ input'.kind = "Header") =>
             sort_kind' = sort_kind /\ sort_descending' = sort_descending
        /\ running' /\ sort_kind' = "None" =>
             processes' = ConcatProcesses(polled'[1])]_vars

\* a key has been active through a row click and a frame without a click,
\* both on snapshots of two rows
C23_Witness ==
  /\ running
  /\ sort_kind = "Memory"
  /\ input = NoClick
  /\ selection # {}
  /\ Len(processes) = 2

\* C24: a frame whose sample succeeds puts the temperature and the memory
\* usage of that sample at the end of their buffers, one value each; both
\* buffers always have the same length, and the values at the same index are
\* the temperature and the memory usage of one and the same sample.
C24_BuffersStayAligned ==
  [][LET n == Len(temperature_vals')
         first == Len(history') - n
     IN /\ Len(memory_usage_vals') = n
        /\ first >= 0
        /\ \A i \in 1..n :
             /\ temperature_vals'[i] = history'[first + i].temperature
             /\ memory_usage_vals'[i] = history'[first + i].used
        /\ polled'[1].fail = "none" =>
             /\ n = Min(Len(temperature_vals) + 1, Capacity)
             /\ Len(memory_usage_vals') = Min(Len(memory_usage_vals) + 1, Capacity)
             /\ temperature_vals'[n] = polled'[1].temperature
             /\ memory_usage_vals'[n] = MemoryUsageMiB(polled'[1].used)]_vars

\* both buffers have evicted the values of the first sample together:
\* index 0 of each holds its value of the second sample
C24_Witness ==
  /\ Len(temperature_vals) >= 2
  /\ Len(memory_usage_vals) = Len(temperature_vals)
  /\ Len(history) = Len(temperature_vals) + 1
  /\ history[1].temperature # history[2].temperature
  /\ history[1].used # history[2].used
  /\ temperature_vals[1] = history[2].temperature
  /\ memory_usage_vals[1] = history[2].used

====
